---- MODULE Spec2Model ----
(***************************************************************************)
(* Model of ipro_in_tax_division.py: a command-line pipeline that fetches  *)
(* the proteins carrying an InterPro domain from a paginated remote API,   *)
(* keeps those of a taxonomic subtree, caches the kept list in a pickle    *)
(* file and annotates and renders the taxonomic tree.                      *)
(*                                                                         *)
(* Python strings that the program parses with int() are modelled as       *)
(* sequences of one-character strings; every other string is a TLA+        *)
(* string.  Python lists are sequences; a Python index i is the TLA+       *)
(* index i + 1.                                                            *)
(***************************************************************************)
EXTENDS Integers, Sequences, FiniteSets, TLC

\* ---------------------------------------------------------------- bounds
\* Longest `results` list of one page of the remote API.
MaxPageLen == 1
\* Longest chain of pages linked by `next`.
MaxPages == 2
\* Most failed requests in one run (the code itself has no cap).
MaxFail == 2

\* ------------------------------------------------------- Python helpers
Digits == {"0", "1", "2", "3", "4", "5", "6", "7", "8", "9"}

DigitVal(c) ==
    CASE c = "0" -> 0 [] c = "1" -> 1 [] c = "2" -> 2 [] c = "3" -> 3
      [] c = "4" -> 4 [] c = "5" -> 5 [] c = "6" -> 6 [] c = "7" -> 7
      [] c = "8" -> 8 [] c = "9" -> 9

\* int(s) succeeds on a non-empty string of decimal digits.
IsInt(s) == Len(s) > 0 /\ \A i \in 1..Len(s) : s[i] \in Digits

RECURSIVE int(_)
int(s) ==
    IF Len(s) = 0 THEN 0
    ELSE 10 * int(SubSeq(s, 1, Len(s) - 1)) + DigitVal(s[Len(s)])

\* str(n) and the f-string conversion {n} of an integer.
str(n) == ToString(n)

\* sep.join(xs) for a list of strings.
RECURSIVE join(_, _)
join(sep, xs) ==
    IF Len(xs) = 0 THEN ""
    ELSE IF Len(xs) = 1 THEN xs[1]
    ELSE xs[1] \o sep \o join(sep, Tail(xs))

\* The sequences over S of length at most n.
SeqUpTo(S, n) == UNION {[1..k -> S] : k \in 0..n}

\* ------------------------------------------------- the remote API's data
Frag(s, e) == [start |-> s, end |-> e]

\* One entry, one location, one fragment.
RecA == [metadata |-> [accession |-> "A0A001", length |-> 3,
                       source_organism |-> [taxId |-> <<"1", "0">>]],
         entries |-> << [entry_protein_locations |->
                            << [fragments |-> << Frag(1, 2) >>] >>] >>]

\* Two entries; the first has two locations, the first of them two fragments.
RecB == [metadata |-> [accession |-> "B0B002", length |-> 5,
                       source_organism |-> [taxId |-> <<"1", "0">>]],
         entries |-> << [entry_protein_locations |->
                            << [fragments |-> << Frag(1, 2), Frag(4, 5) >>],
                               [fragments |-> << Frag(3, 3) >>] >>],
                        [entry_protein_locations |->
                            << [fragments |-> << Frag(2, 4) >>] >>] >>]

\* An organism of another lineage.
RecC == [metadata |-> [accession |-> "C0C003", length |-> 4,
                       source_organism |-> [taxId |-> <<"1", "2">>]],
         entries |-> << [entry_protein_locations |->
                            << [fragments |-> << Frag(2, 3) >>] >>] >>]

\* A malformed record: metadata has no `length`.
RecM == [metadata |-> [accession |-> "M0M004",
                       source_organism |-> [taxId |-> <<"1", "2">>]],
         entries |-> << [entry_protein_locations |->
                            << [fragments |-> << Frag(1, 1) >>] >>] >>]

RawRecords == {RecA, RecB, RecC, RecM}

\* A page's `results`, and a chain of pages: page i links to page i + 1 and
\* the last page's `next` is null.
Pages == SeqUpTo(RawRecords, MaxPageLen)
Chains == SeqUpTo(Pages, MaxPages) \ {<< >>}

\* The `count` fields the service may report.
Counts == {0, 3}

\* ------------------------------------------- the local taxonomy snapshot
\* child :> parent.  Taxon 1 is the root; 10, 11 and 12 are its leaves.
Taxonomy == (2 :> 1) @@ (3 :> 1) @@ (10 :> 2) @@ (11 :> 2) @@ (12 :> 3)

Taxa == DOMAIN Taxonomy \cup {Taxonomy[t] : t \in DOMAIN Taxonomy}

RECURSIVE Below(_, _)
\* Whether taxon t lies strictly below taxon r.
Below(t, r) ==
    /\ t \in DOMAIN Taxonomy
    /\ (Taxonomy[t] = r \/ Below(Taxonomy[t], r))

\* ncbi.get_descendant_taxa(tax_id): the leaf taxa below tax_id.
get_descendant_taxa(tax_id) ==
    {t \in Taxa : Below(t, tax_id) /\ ~ \E c \in DOMAIN Taxonomy : Taxonomy[c] = t}

\* ncbi.get_descendant_taxa(tax_id, return_tree=True): the names of the
\* nodes of the tree of tax_id; a node's name is its taxid as a string.
get_descendant_tree(tax_id) ==
    {str(t) : t \in {x \in Taxa : x = tax_id \/ Below(x, tax_id)}}

\* ------------------------------------------------------ filter/transform
Protein(prot_acc, prot_len, prot_tax, dom_loc) ==
    [prot_acc |-> prot_acc, prot_len |-> prot_len,
     prot_tax |-> prot_tax, dom_loc |-> dom_loc]

HasKey(d, k) == k \in DOMAIN d

\* [(x['start'], x['end']) for x in fragments]
start_end(fragments) ==
    [i \in 1..Len(fragments) |-> <<fragments[i].start, fragments[i].end>>]

\* read_fields with protein['metadata'].get('length', 0) for the length.
read_fields_lenient(protein) ==
    [raise |-> "none",
     prot_acc |-> protein.metadata.accession,
     locations |-> start_end(protein.entries[1].entry_protein_locations[1].fragments),
     prot_len |-> IF HasKey(protein.metadata, "length")
                  THEN protein.metadata.length ELSE 0,
     tax_acc |-> int(protein.metadata.source_organism.taxId)]

\* The reads of one loop body of process_interpro_obj, in the code's order;
\* `raise` names the exception of the first read that fails.
read_fields(protein) ==
    IF ~HasKey(protein, "metadata") \/ ~HasKey(protein.metadata, "accession")
    THEN [raise |-> "KeyError"]
    ELSE IF ~HasKey(protein, "entries") THEN [raise |-> "KeyError"]
    ELSE IF Len(protein.entries) = 0 THEN [raise |-> "IndexError"]
    ELSE IF ~HasKey(protein.entries[1], "entry_protein_locations")
    THEN [raise |-> "KeyError"]
    ELSE IF Len(protein.entries[1].entry_protein_locations) = 0
    THEN [raise |-> "IndexError"]
    ELSE IF ~HasKey(protein.entries[1].entry_protein_locations[1], "fragments")
    THEN [raise |-> "KeyError"]
    ELSE IF \E i \in 1..Len(protein.entries[1].entry_protein_locations[1].fragments) :
              LET x == protein.entries[1].entry_protein_locations[1].fragments[i]
              IN  ~HasKey(x, "start") \/ ~HasKey(x, "end")
    THEN [raise |-> "KeyError"]
    ELSE IF ~HasKey(protein.metadata, "length") THEN [raise |-> "KeyError"]
    ELSE IF ~HasKey(protein.metadata, "source_organism")
            \/ ~HasKey(protein.metadata.source_organism, "taxId")
    THEN [raise |-> "KeyError"]
    ELSE IF ~IsInt(protein.metadata.source_organism.taxId)
    THEN [raise |-> "ValueError"]
    ELSE [raise |-> "none",
          prot_acc |-> protein.metadata.accession,
          locations |-> start_end(protein.entries[1].entry_protein_locations[1].fragments),
          prot_len |-> protein.metadata.length,
          tax_acc |-> int(protein.metadata.source_organism.taxId)]

\* keep_if_descendant without the membership test.
keep_every_record(processed_obj, f, tax_to_keep) ==
    Append(processed_obj, Protein(f.prot_acc, f.prot_len, f.tax_acc, f.locations))

\* One iteration of the loop of process_interpro_obj on a record whose
\* reads succeeded.
keep_if_descendant(processed_obj, f, tax_to_keep) ==
    IF f.tax_acc \in tax_to_keep
    THEN Append(processed_obj,
                Protein(f.prot_acc, f.prot_len, f.tax_acc, f.locations))
    ELSE processed_obj

RECURSIVE process_loop(_, _, _, _)
process_loop(ip_obj, tax_to_keep, i, processed_obj) ==
    IF i > Len(ip_obj) THEN [raise |-> "none", ret |-> processed_obj]
    ELSE LET f == read_fields(ip_obj[i])
         IN  IF f.raise # "none" THEN [raise |-> f.raise, ret |-> << >>]
             ELSE process_loop(ip_obj, tax_to_keep, i + 1,
                               keep_if_descendant(processed_obj, f, tax_to_keep))

process_interpro_obj(ip_obj, tax_to_keep) ==
    process_loop(ip_obj, tax_to_keep, 1, << >>)

\* ------------------------------------------------------- the cache file
\* path_file_of with the root id left out of the name.
path_file_without_tax(tax_id, query_dom_id) ==
    "ip_obj_" \o query_dom_id \o ".pkl"

\* f"ip_obj_{tax_id}_{query_dom_id}.pkl"
path_file_of(tax_id, query_dom_id) ==
    "ip_obj_" \o str(tax_id) \o "_" \o query_dom_id \o ".pkl"

\* pickle.dump of a list of Protein: each instance is written as its class
\* name followed by its fields; pickle.load rebuilds the instances.
pickle_dump(obj) ==
    [i \in 1..Len(obj) |->
        <<"Protein", obj[i].prot_acc, obj[i].prot_len, obj[i].prot_tax, obj[i].dom_loc>>]

pickle_load(data) ==
    [i \in 1..Len(data) |-> Protein(data[i][2], data[i][3], data[i][4], data[i][5])]

\* The working directory is a set of [path, data] files, one per path.
exists(fs, path) == \E f \in fs : f.path = path

read_file(fs, path) == (CHOOSE f \in fs : f.path = path).data

write_file(fs, path, data) ==
    {f \in fs : f.path # path} \cup {[path |-> path, data |-> data]}

\* ---------------------------------------------------- the tree renderer
RECURSIVE dashes(_)
\* "-" * length
dashes(length) == IF length <= 0 THEN "" ELSE "-" \o dashes(length - 1)

\* qk_seq: the arguments of one SeqMotifFace.
qk_seq(length, doms, queried_dom) ==
    [seq |-> dashes(length),
     motifs |-> [i \in 1..Len(doms) |->
                    <<doms[i][1], doms[i][2], "()", "DodgerBlue",
                      "arial|6|black|" \o queried_dom>>]]

\* The two faces gen_tree adds for one protein, on node t & str(prot_tax).
faces_of(prot, queried_dom) ==
    << [node |-> str(prot.prot_tax), face |-> "SeqMotifFace", column |-> 1,
        content |-> qk_seq(prot.prot_len, prot.dom_loc, queried_dom)],
       [node |-> str(prot.prot_tax), face |-> "TextFace", column |-> 0,
        content |-> prot.prot_acc] >>

\* dict_tax_w_prot is an insertion-ordered list of [key, val] items.
has_key(dict, k) == \E j \in 1..Len(dict) : dict[j].key = k

\* dict_add with both branches assigning a new list.
dict_add_overwrite(dict, k, acc) ==
    IF has_key(dict, k)
    THEN [j \in 1..Len(dict) |->
            IF dict[j].key = k THEN [key |-> k, val |-> <<acc>>] ELSE dict[j]]
    ELSE Append(dict, [key |-> k, val |-> <<acc>>])

\* The if/else of gen_tree that files an accession under its taxid.
dict_add(dict, k, acc) ==
    IF has_key(dict, k)
    THEN [j \in 1..Len(dict) |->
            IF dict[j].key = k
            THEN [key |-> k, val |-> Append(dict[j].val, acc)]
            ELSE dict[j]]
    ELSE Append(dict, [key |-> k, val |-> <<acc>>])

RECURSIVE annotate_loop(_, _, _, _, _)
\* The loop of gen_tree over ipr_obj.
annotate_loop(ipr_obj, queried_dom, i, faces, dict) ==
    IF i > Len(ipr_obj) THEN [faces |-> faces, dict |-> dict]
    ELSE annotate_loop(ipr_obj, queried_dom, i + 1,
                       faces \o faces_of(ipr_obj[i], queried_dom),
                       dict_add(dict, ipr_obj[i].prot_tax, ipr_obj[i].prot_acc))

\* The loop of gen_tree over dict_tax_w_prot: the features of each taxid.
features_of(dict) ==
    [j \in 1..Len(dict) |->
        [node |-> str(dict[j].key),
         num_prots |-> Len(dict[j].val),
         prot_acc |-> IF Len(dict[j].val) = 1 THEN dict[j].val[1]
                      ELSE join(",", dict[j].val)]]

\* gen_tree on the tree whose node names are `names`: t & name raises when
\* no node has the name.
gen_tree(names, ipr_obj, queried_dom) ==
    IF \E i \in 1..Len(ipr_obj) : str(ipr_obj[i].prot_tax) \notin names
    THEN [raise |-> "TreeError", faces |-> << >>, features |-> << >>]
    ELSE LET a == annotate_loop(ipr_obj, queried_dom, 1, << >>, << >>)
         IN  [raise |-> "none", faces |-> a.faces, features |-> features_of(a.dict)]

\* The file final_tree.render writes.
render_path(save_dir, queried_dom, main_tax_id) ==
    save_dir \o queried_dom \o "_in_" \o str(main_tax_id) \o ".pdf"

\* ------------------------------------------------------------ the fetcher
\* The URL of a page is its index in the chain; base_url is page 1.
base_url == 1
\* The null `next` of the last page.
None == 0

\* What one session.get can do.
Outcomes == {"ok", "exception", "not_ok"}

\* get_pg without the r.ok test: the body of an error response is parsed
\* like a page, and holds no results and no next link.
get_pg_no_ok_test(url, outcome, pages, cnt) ==
    IF outcome = "exception" THEN [raise |-> "UnboundLocalError", ret |-> << >>]
    ELSE IF outcome = "ok"
    THEN LET nxt == IF url < Len(pages) THEN url + 1 ELSE 0
         IN  [raise |-> "none",
              ret |-> << [count |-> cnt, results |-> pages[url], next |-> nxt], nxt >>]
    ELSE [raise |-> "none",
          ret |-> << [count |-> cnt, results |-> << >>, next |-> 0], 0 >>]

\* get_pg(url) against the chain `pages`.  A raised request exception
\* reaches the print of line 58, which reads the unbound local r; a
\* response that is not ok falls off the end of the function, which
\* returns None (here the empty tuple).
get_pg(url, outcome, pages, cnt) ==
    IF outcome = "exception" THEN [raise |-> "UnboundLocalError", ret |-> << >>]
    ELSE IF outcome = "ok"
    THEN LET nxt == IF url < Len(pages) THEN url + 1 ELSE None
         IN  [raise |-> "none",
              ret |-> << [count |-> cnt, results |-> pages[url], next |-> nxt], nxt >>]
    ELSE [raise |-> "none", ret |-> << >>]

\* `a, b = value`: a TypeError when value is None.
unpack(r) ==
    IF r.raise # "none" THEN r.raise
    ELSE IF Len(r.ret) # 2 THEN "TypeError"
    ELSE "none"

\* round(a / b) for b > 0: Python rounds a tie to the even neighbour.
round_div(a, b) ==
    LET q == a \div b
        r == a % b
    IN  IF 2 * r < b THEN q
        ELSE IF 2 * r > b THEN q + 1
        ELSE IF q % 2 = 0 THEN q ELSE q + 1

\* ------------------------------------------------------ the command line
\* The try block of the script's entry: argv[0] is av[1].
main_block(av) ==
    IF Len(av) < 2 THEN [raise |-> "IndexError"]
    ELSE IF ~IsInt(av[2]) THEN [raise |-> "ValueError"]
    ELSE IF Len(av) < 3 THEN [raise |-> "IndexError"]
    ELSE IF Len(av) = 3
    THEN IF Len(av) < 4 THEN [raise |-> "IndexError"]
         ELSE [raise |-> "none", tax_id |-> int(av[2]),
               query_dom_id |-> av[3], save_to_dir |-> av[4]]
    ELSE [raise |-> "none", tax_id |-> int(av[2]),
          query_dom_id |-> av[3], save_to_dir |-> "./"]

\* The command lines tried: the script name, then up to three arguments.
TaxArgs == {<<"1">>, <<"2">>, <<"x">>}
DomArgs == {"IPR000001", "IPR000002"}
DirArgs == {"out/"}
ArgCounts == {1, 2, 3, 4}

\* Chains served in the runs that share a working directory: two pages
\* with kept and dropped records, one page of another lineage, and a chain
\* holding a malformed record.
SampleChains ==
    { << <<RecA, RecC>>, <<RecB>> >>, << <<RecC>> >>, << <<RecA>>, <<RecM>> >> }

\* -------------------------------------------------------------- the state
VARIABLES
    files,              \* the working directory: the cache files
    pc,                 \* where the current run stands
    argv, TQDM_ON,      \* the command line; whether tqdm was imported
    tax_id, query_dom_id, save_to_dir,
    descendents, path_file, cached,
    remote, count,      \* the chain and `count` the service holds for the query
    results, next_page, \* obj['results'] and next_page of the fetcher
    pbar,               \* the progress bar
    nreq, nfail,        \* session.get calls of the run, and those that failed
    itrpro_obj, process_itrpro_obj,
    tree, rendered,     \* the tree's annotations; the files rendered
    exc                 \* the exception that ended the run, or "none"

cli == <<argv, TQDM_ON, tax_id, query_dom_id, save_to_dir>>
setup == <<descendents, path_file, cached, remote, count>>
fetch == <<results, next_page, pbar, nreq, nfail>>
output == <<tree, rendered>>
vars == <<files, pc, cli, setup, fetch, itrpro_obj, process_itrpro_obj, output, exc>>

NoTree == [faces |-> << >>, features |-> << >>]
NoBar == [total |-> 0, n |-> 0]

\* A fresh process: nothing but the working directory carries over.
Fresh ==
    /\ pc = "idle"
    /\ argv = << >> /\ TQDM_ON = TRUE
    /\ tax_id = 0 /\ query_dom_id = "" /\ save_to_dir = ""
    /\ descendents = {} /\ path_file = "" /\ cached = FALSE
    /\ remote = << >> /\ count = 0
    /\ results = << >> /\ next_page = None /\ pbar = NoBar
    /\ nreq = 0 /\ nfail = 0
    /\ itrpro_obj = << >> /\ process_itrpro_obj = << >>
    /\ tree = NoTree /\ rendered = << >>
    /\ exc = "none"

Init == files = {} /\ Fresh

\* The run ends with exception e.
Abort(e) == pc' = "aborted" /\ exc' = e

\* Script start: the imports, then the entry block up to the call of main.
\* Any failure of the try block reaches `raise "<string>"`, a TypeError.
Start(av, tqdm) ==
    /\ pc = "idle"
    /\ argv' = av
    /\ TQDM_ON' = tqdm
    /\ LET b == main_block(av)
       IN  IF b.raise # "none"
           THEN /\ Abort("TypeError")
                /\ UNCHANGED <<tax_id, query_dom_id, save_to_dir>>
           ELSE /\ tax_id' = b.tax_id
                /\ query_dom_id' = b.query_dom_id
                /\ save_to_dir' = b.save_to_dir
                /\ pc' = "main"
                /\ exc' = "none"
    /\ UNCHANGED <<files, setup, fetch, itrpro_obj, process_itrpro_obj, output>>

\* Main with the fetch outside the else: it runs whether or not the cache
\* file exists.
Main_always_fetches(chains, cnt) ==
    /\ pc = "main"
    /\ descendents' = get_descendant_taxa(tax_id)
    /\ path_file' = path_file_of(tax_id, query_dom_id)
    /\ cached' = exists(files, path_file')
    /\ remote' \in chains
    /\ count' = cnt
    /\ pc' = "get_first"
    /\ UNCHANGED <<files, cli, fetch, itrpro_obj, process_itrpro_obj, output, exc>>

\* main up to the cache test: a cache file that exists is loaded; otherwise
\* the fetch starts, against one of `chains`.
Main(chains, cnt) ==
    /\ pc = "main"
    /\ descendents' = get_descendant_taxa(tax_id)
    /\ path_file' = path_file_of(tax_id, query_dom_id)
    /\ cached' = exists(files, path_file')
    /\ IF cached'
       THEN /\ process_itrpro_obj' = pickle_load(read_file(files, path_file'))
            /\ pc' = "make_tree"
            /\ UNCHANGED <<remote, count>>
       ELSE /\ remote' \in chains
            /\ count' = cnt
            /\ pc' = "get_first"
            /\ UNCHANGED process_itrpro_obj
    /\ UNCHANGED <<files, cli, fetch, itrpro_obj, output, exc>>

\* The first request and the lines up to the loop: the page estimate divides
\* by len(obj['results']), and the progress bar needs the name tqdm.
FirstPage(outcome) ==
    /\ pc = "get_first"
    /\ nreq' = nreq + 1
    /\ LET r == get_pg(base_url, outcome, remote, count)
       IN  IF unpack(r) # "none"
           THEN /\ Abort(unpack(r))
                /\ nfail' = nfail + 1
                /\ UNCHANGED <<results, next_page, pbar>>
           ELSE /\ nfail' = nfail
                /\ results' = r.ret[1].results
                /\ next_page' = r.ret[2]
                /\ IF Len(r.ret[1].results) = 0
                   THEN Abort("ZeroDivisionError") /\ UNCHANGED pbar
                   ELSE IF ~TQDM_ON
                   THEN Abort("NameError") /\ UNCHANGED pbar
                   ELSE /\ pbar' = [total |-> round_div(r.ret[1].count,
                                                        Len(r.ret[1].results)),
                                    n |-> 1]
                        /\ pc' = "loop"
                        /\ exc' = "none"
    /\ UNCHANGED <<files, cli, setup, itrpro_obj, process_itrpro_obj, output>>

\* One iteration of the while loop: a failed get_pg raises inside the try
\* and the loop continues; a page that arrives is appended.
NextPage(outcome) ==
    /\ pc = "loop"
    /\ next_page # None
    /\ nreq' = nreq + 1
    /\ LET r == get_pg(next_page, outcome, remote, count)
       IN  IF unpack(r) # "none"
           THEN /\ nfail < MaxFail
                /\ nfail' = nfail + 1
                /\ UNCHANGED <<results, next_page, pbar>>
           ELSE /\ nfail' = nfail
                /\ results' = results \o r.ret[1].results
                /\ next_page' = r.ret[2]
                /\ pbar' = [pbar EXCEPT !.n = @ + 1]
    /\ UNCHANGED <<files, pc, cli, setup, itrpro_obj, process_itrpro_obj, output, exc>>

\* The loop ends and the fetcher returns obj['results'].
Return ==
    /\ pc = "loop"
    /\ next_page = None
    /\ itrpro_obj' = results
    /\ pc' = "process"
    /\ UNCHANGED <<files, cli, setup, fetch, process_itrpro_obj, output, exc>>

\* main, lines 184 to 186: filter, then write the cache file.
Process ==
    /\ pc = "process"
    /\ LET p == process_interpro_obj(itrpro_obj, descendents)
       IN  IF p.raise # "none"
           THEN /\ Abort(p.raise)
                /\ UNCHANGED <<files, process_itrpro_obj>>
           ELSE /\ process_itrpro_obj' = p.ret
                /\ files' = write_file(files, path_file, pickle_dump(p.ret))
                /\ pc' = "make_tree"
                /\ exc' = "none"
    /\ UNCHANGED <<cli, setup, fetch, itrpro_obj, output>>

\* make_tree: annotate the tree of tax_id, render it once and show it.
MakeTree ==
    /\ pc = "make_tree"
    /\ LET g == gen_tree(get_descendant_tree(tax_id), process_itrpro_obj, query_dom_id)
       IN  IF g.raise # "none"
           THEN Abort(g.raise) /\ UNCHANGED output
           ELSE /\ tree' = [faces |-> g.faces, features |-> g.features]
                /\ rendered' = Append(rendered,
                                      render_path(save_to_dir, query_dom_id, tax_id))
                /\ pc' = "done"
                /\ exc' = "none"
    /\ UNCHANGED <<files, cli, setup, fetch, itrpro_obj, process_itrpro_obj>>

\* The process ends; the next run starts from a fresh process.
Exit ==
    /\ pc \in {"done", "aborted"}
    /\ pc' = "idle"
    /\ argv' = << >> /\ TQDM_ON' = TRUE
    /\ tax_id' = 0 /\ query_dom_id' = "" /\ save_to_dir' = ""
    /\ descendents' = {} /\ path_file' = "" /\ cached' = FALSE
    /\ remote' = << >> /\ count' = 0
    /\ results' = << >> /\ next_page' = None /\ pbar' = NoBar
    /\ nreq' = 0 /\ nfail' = 0
    /\ itrpro_obj' = << >> /\ process_itrpro_obj' = << >>
    /\ tree' = NoTree /\ rendered' = << >>
    /\ exc' = "none"
    /\ UNCHANGED files

StartAny ==
    \E n \in ArgCounts, t \in TaxArgs, d \in DomArgs, o \in DirArgs, q \in BOOLEAN :
        Start(SubSeq(<<"prot_w_dom.py", t, d, o>>, 1, n), q)

Request == \E o \in Outcomes : FirstPage(o) \/ NextPage(o)

\* Runs one after another in one working directory.
Next ==
    \/ StartAny
    \/ \E c \in Counts : Main(SampleChains, c)
    \/ Request
    \/ Return
    \/ Process
    \/ MakeTree
    \/ Exit

Spec == Init /\ [][Next]_vars

\* One run, in an empty working directory, against every chain.
NextOnce ==
    \/ StartAny
    \/ \E c \in Counts : Main(Chains, c)
    \/ Request
    \/ Return
    \/ Process
    \/ MakeTree

SpecOnce == Init /\ [][NextOnce]_vars

\* ------------------------------------------------------------- properties
RECURSIVE AllResults(_)
\* results(p1) ++ ... ++ results(pn)
AllResults(pages) ==
    IF Len(pages) = 0 THEN << >> ELSE Head(pages) \o AllResults(Tail(pages))

\* The run is past the fetcher's return, and fetched rather than loaded.
Fetched == ~cached /\ pc \in {"process", "make_tree", "done"}

\* The run is past the filter, and filtered rather than loaded.
Filtered == ~cached /\ pc \in {"make_tree", "done"}

\* The run ended inside get_query_from_interpro.
FetchAborted ==
    /\ pc = "aborted"
    /\ nreq >= 1
    /\ exc \in {"UnboundLocalError", "TypeError", "ZeroDivisionError", "NameError"}

\* C1: when get_query_from_interpro returns, the returned list is the
\* results of the pages of the chain, in page order, each page once,
\* whatever attempts on the follow-up pages failed.
C1_FetchComplete == Fetched => itrpro_obj = AllResults(remote)

\* A two-page fetch returned after a failed attempt.
C1_Witness ==
    /\ pc = "process"
    /\ Len(remote) = 2
    /\ nfail >= 1
    /\ Len(itrpro_obj) = 2
    /\ itrpro_obj[1] # itrpro_obj[2]

TaxIdOf(rec) == int(rec.metadata.source_organism.taxId)
InTaxSet(S, rec) == TaxIdOf(rec) \in S
KeptRecords(R, S) == SelectSeq(R, LAMBDA rec : InTaxSet(S, rec))
FirstFragments(rec) == rec.entries[1].entry_protein_locations[1].fragments

\* C2: the output of process_interpro_obj(R, S) is the sub-sequence of R of
\* the records whose int(taxId) is in S, each with accession and length
\* copied and dom_loc the (start, end) pairs of the first fragment group.
C2_FilterExact ==
    Filtered =>
        LET K == KeptRecords(itrpro_obj, descendents)
        IN  process_itrpro_obj =
                [i \in 1..Len(K) |->
                    [prot_acc |-> K[i].metadata.accession,
                     prot_len |-> K[i].metadata.length,
                     prot_tax |-> TaxIdOf(K[i]),
                     dom_loc |-> [j \in 1..Len(FirstFragments(K[i])) |->
                                    <<FirstFragments(K[i])[j].start,
                                      FirstFragments(K[i])[j].end>>]]]

\* The filter kept the record with several fragment groups and dropped
\* the record before it.
C2_Witness ==
    /\ Filtered
    /\ itrpro_obj = <<RecC, RecB>>
    /\ Len(process_itrpro_obj) = 1
    /\ process_itrpro_obj[1].dom_loc = << <<1, 2>>, <<4, 5>> >>

\* The name of the cache file of root r and domain d.
CacheName(r, d) == "ip_obj_" \o ToString(r) \o "_" \o d \o ".pkl"

\* C3: a run that starts while its cache file exists issues no request and
\* filters nothing, hands the renderer the list stored in the file, and
\* leaves the working directory as it found it.
C3_CacheHit ==
    [][cached' =>
        /\ files' = files
        /\ nreq' = 0
        /\ itrpro_obj' = << >>
        /\ pc' \in {"make_tree", "done", "aborted"}
        /\ \E f \in files' :
              /\ f.path = CacheName(tax_id', query_dom_id')
              /\ f.data = pickle_dump(process_itrpro_obj')]_vars

\* A cached run rendered a non-empty list.
C3_Witness ==
    /\ cached
    /\ pc = "done"
    /\ Len(process_itrpro_obj) >= 2
    /\ Len(rendered) = 1

\* The claimed output directory of a command line.
OutputDir(av) == IF Len(av) = 4 THEN av[4] ELSE "./"

\* C4 as claimed: with two arguments the pipeline runs with output_dir "./",
\* with three it runs with output_dir the third argument, and the file is
\* rendered at <output_dir>/<domain_id>_in_<tax_id>.pdf.  (Every output_dir
\* tried ends with "/".)
C4_CLI ==
    (pc # "idle" /\ Len(argv) \in {3, 4} /\ IsInt(argv[2])) =>
        /\ save_to_dir = OutputDir(argv)
        /\ tax_id = int(argv[2])
        /\ query_dom_id = argv[3]
        /\ pc = "done" =>
              rendered = << OutputDir(argv) \o argv[3] \o "_in_"
                            \o ToString(int(argv[2])) \o ".pdf" >>

\* C5 as claimed: a failed request, on any page, is caught and the same page
\* is requested again, with the accumulator and the pending next URL as
\* they were.
C5_RetryEveryPage ==
    [][nfail' = nfail + 1 =>
        /\ exc' = "none"
        /\ pc' = pc
        /\ results' = results
        /\ next_page' = next_page]_vars

\* C6 as claimed: a first response with a null `next` makes the fetcher
\* return that page's results after one request, whatever the page holds.
C6_SinglePage ==
    (TQDM_ON /\ Len(remote) = 1 /\ nreq >= 1 /\ nfail = 0) =>
        /\ ~FetchAborted
        /\ nreq = 1
        /\ Fetched => itrpro_obj = remote[1]

\* C7: every cache file named for root r holds only records of the
\* descendant set of r, and every record about to be handed, or handed, to
\* the renderer in a run with root r is of the descendant set of r.
C7_CacheWithinRoot ==
    /\ \A f \in files : \A r \in Taxa : \A d \in DomArgs :
          f.path = CacheName(r, d) =>
              \A i \in 1..Len(f.data) :
                  pickle_load(f.data)[i].prot_tax \in get_descendant_taxa(r)
    /\ pc \in {"make_tree", "done"} =>
          \A i \in 1..Len(process_itrpro_obj) :
              process_itrpro_obj[i].prot_tax \in get_descendant_taxa(tax_id)

\* A cached run with root 2 rendered its records while the cache file of
\* root 1 for the same domain, which holds a record of another lineage,
\* exists too.
C7_Witness ==
    /\ cached
    /\ pc = "done"
    /\ tax_id = 2
    /\ Len(process_itrpro_obj) >= 1
    /\ \E f \in files :
          /\ f.path = CacheName(1, query_dom_id)
          /\ \E i \in 1..Len(f.data) : f.data[i][4] = 12

\* C8 as claimed: without tqdm a run whose first page arrives with results
\* goes on through the fetch.
C8_NoTqdm ==
    (~TQDM_ON /\ ~cached /\ nreq >= 1 /\ nfail = 0 /\ Len(results) > 0)
        => ~FetchAborted

\* A raw record with every key the filter reads.
WellFormed(rec) ==
    /\ {"metadata", "entries"} \subseteq DOMAIN rec
    /\ {"accession", "length", "source_organism"} \subseteq DOMAIN rec.metadata
    /\ "taxId" \in DOMAIN rec.metadata.source_organism
    /\ Len(rec.entries) >= 1
    /\ "entry_protein_locations" \in DOMAIN rec.entries[1]
    /\ Len(rec.entries[1].entry_protein_locations) >= 1
    /\ "fragments" \in DOMAIN rec.entries[1].entry_protein_locations[1]
    /\ \A j \in 1..Len(FirstFragments(rec)) :
          {"start", "end"} \subseteq DOMAIN FirstFragments(rec)[j]

Malformed(R) == \E i \in 1..Len(R) : ~WellFormed(R[i])

\* C9: a malformed record anywhere in the fetched list aborts the run,
\* whether or not its taxid is in the descendant set; an abort in the fetch
\* or the filter leaves the working directory alone and the renderer
\* uncalled; and a cache file is only ever written with the filter output
\* of the whole chain.
C9_AbortLeavesNoCache ==
    [][/\ (pc = "process" /\ Malformed(itrpro_obj)) => pc' = "aborted"
       /\ (pc \in {"get_first", "loop", "process"} /\ pc' = "aborted") =>
              (files' = files /\ rendered' = << >>)
       /\ files' # files =>
             /\ ~Malformed(AllResults(remote))
             /\ files' = files \cup
                  {[path |-> CacheName(tax_id, query_dom_id),
                    data |-> pickle_dump(process_interpro_obj(
                                 AllResults(remote), descendents).ret)]}]_vars

\* The run with root 2 aborted on a malformed record of a taxid outside
\* the descendant set, with no cache file and nothing rendered.
C9_Witness ==
    /\ pc = "aborted"
    /\ exc = "KeyError"
    /\ itrpro_obj = <<RecA, RecM>>
    /\ TaxIdOf(RecM) \notin descendents
    /\ files = {}
    /\ rendered = << >>

\* The indices of the proteins of taxid name t, and their accessions in
\* list order joined by ",".
ProtsOf(L, t) == {i \in 1..Len(L) : ToString(L[i].prot_tax) = t}

RECURSIVE AccList(_, _, _)
AccList(L, t, acc) ==
    IF Len(L) = 0 THEN acc
    ELSE AccList(Tail(L), t,
                 IF ToString(Head(L).prot_tax) # t THEN acc
                 ELSE IF acc = "" THEN Head(L).prot_acc
                 ELSE acc \o "," \o Head(L).prot_acc)

FacesOn(t, kind) ==
    {i \in 1..Len(tree.faces) : tree.faces[i].node = t /\ tree.faces[i].face = kind}

FeaturesOn(t) == {j \in 1..Len(tree.features) : tree.features[j].node = t}

\* C10: after make_tree every node carries one sequence-bar face and one
\* accession face per protein of its taxid, num_prots is that number and
\* prot_acc those accessions in list order joined by ","; a node without
\* protein carries no face and no feature; and the tree is rendered once,
\* also for the empty list.
C10_AnnotationCounts ==
    pc = "done" =>
        /\ Len(rendered) = 1
        /\ \A i \in 1..Len(tree.faces) :
              tree.faces[i].node \in get_descendant_tree(tax_id)
        /\ \A t \in get_descendant_tree(tax_id) :
              LET n == Cardinality(ProtsOf(process_itrpro_obj, t))
              IN  /\ Cardinality(FacesOn(t, "SeqMotifFace")) = n
                  /\ Cardinality(FacesOn(t, "TextFace")) = n
                  /\ Cardinality(FeaturesOn(t)) = IF n = 0 THEN 0 ELSE 1
                  /\ \A j \in FeaturesOn(t) :
                        /\ tree.features[j].num_prots = n
                        /\ tree.features[j].prot_acc =
                              AccList(process_itrpro_obj, t, "")

\* Two proteins of one taxid were annotated.
C10_Witness ==
    /\ pc = "done"
    /\ process_itrpro_obj # << >>
    /\ \E j \in 1..Len(tree.features) :
          /\ tree.features[j].num_prots = 2
          /\ tree.features[j].prot_acc = "A0A001,B0B002"

====
